---- MODULE Spec2Model ----
(***************************************************************************)
(* LoanTwin legal document extraction: backend/app/services/extractor.py   *)
(* (OCREngine, LegalExtractor, build_dlr) and the process_document         *)
(* handler of backend/app/routers/loans.py that stores its result.         *)
(*                                                                         *)
(* Text is modelled as a sequence of lines joined by "\n".  A line is a   *)
(* heading line (it matches HEADING_RE once stripped), a body line (non-  *)
(* blank, no heading) or a blank line (whitespace only); it carries its   *)
(* length in characters, the citation keywords it contains (a keyword in  *)
(* a line stands at the start of the line) and a tag naming the literal   *)
(* marker it starts with, if any.  A text also carries the set of regex   *)
(* features (patterns of the metadata/facility/table extractors) that     *)
(* match inside it.  Numbers in [0,1] are kept as hundredths.             *)
(***************************************************************************)
EXTENDS Integers, Sequences, FiniteSets, TLC

VARIABLES
    env,       \* module globals: EASYOCR_AVAILABLE, TESSERACT_AVAILABLE, Groq client configured
    pdf,       \* the uploaded file: which candidate paths exist, validity, its pages
    loan,      \* the Loan row (canonical fields, dlr_json, version) and its Clause rows
    doc,       \* the Document row (status)
    pc,        \* position inside process_document / build_dlr
    ex,        \* the LegalExtractor instance of the running build_dlr
    meta,      \* the metadata dict returned by extract_metadata
    out,       \* (dlr, clauses) returned by build_dlr
    ocrLog,    \* history: one record per process_page_image call of the running build_dlr
    run,       \* history: number of process_document calls started, outcome of the AI pass
               \* (its kind, and the object json.loads returned)
    prev,      \* history: what build_dlr returned in the call before this one, and how it ran
    resp,      \* the response of the last read handler (get_dlr, get_loan_stats, ...)
    _easyocr_reader,  \* module global: the EasyOCR reader (0 for None, else the instance)
    readers,   \* history: number of easyocr.Reader instances constructed in the process
    workers    \* the threads running _get_easyocr_reader at the same time

vars == <<env, pdf, loan, doc, pc, ex, meta, out, ocrLog, run, prev, resp,
          _easyocr_reader, readers, workers>>

----------------------------------------------------------------------------
(* Bounds of the model *)

MaxPages == 2
MaxRuns == 2

(* Program constants *)

ScanTextLimit == 50        \* is_scanned_page: len(text.strip()) < 50
StillEmptyLen == 10        \* load_document: len(t) < 10
CloseMinBody == 50         \* extract_clauses: close a clause when body > 50
ClauseMinBody == 80        \* extract_clauses: final filter body > 80
CitationWindow == 500      \* generate_citations: c["body"][:500]
ConfAI == 92               \* extraction_confidence with a client
ConfRegex == 75            \* extraction_confidence without a client
NoneInt == 0 - 1           \* Python None in an integer-valued field
NonNumeric == 0 - 2        \* a JSON string that is no numeral, in an integer-valued field
None == "None"             \* Python None in a string-valued field

----------------------------------------------------------------------------
(* Text *)

keywords ==
    <<"Governing Law", "Assignment", "Transfer", "Financial Covenant",
      "Event of Default", "ESG", "Sustainability", "Margin", "Interest">>

KwLen(kw) ==
    CASE kw = "Governing Law" -> 13
      [] kw = "Assignment" -> 10
      [] kw = "Transfer" -> 8
      [] kw = "Financial Covenant" -> 18
      [] kw = "Event of Default" -> 16
      [] kw = "ESG" -> 3
      [] kw = "Sustainability" -> 14
      [] kw = "Margin" -> 6
      [] kw = "Interest" -> 8

\* tag: the literal marker the line starts with ("" for none; a heading's own
\* text for a heading line); pg: the page number that marker names (0 for none)
Line(kind, len, kws, tag, pg) ==
    [kind |-> kind, len |-> len, kws |-> kws, tag |-> tag, pg |-> pg]
Heading(id, kws) == Line("heading", 22, kws, id, 0)
Body(len, kws) == Line("body", len, kws, "", 0)
Blank(len) == Line("blank", len, {}, "", 0)

Text(lines, feats) == [lines |-> lines, feats |-> feats]

RECURSIVE SumLen(_)
SumLen(ls) == IF ls = <<>> THEN 0 ELSE Head(ls).len + SumLen(Tail(ls))

\* len("\n".join(lines))
JoinLen(ls) == IF ls = <<>> THEN 0 ELSE SumLen(ls) + (Len(ls) - 1)

NonBlankIdx(ls) == {k \in 1..Len(ls) : ls[k].kind # "blank"}
MinOf(S) == CHOOSE x \in S : \A y \in S : x <= y
MaxOf(S) == CHOOSE x \in S : \A y \in S : x >= y

\* len(s.strip()) for s = the lines joined by "\n" (with or without a final "\n")
StripLen(ls) ==
    IF NonBlankIdx(ls) = {} THEN 0
    ELSE LET f == MinOf(NonBlankIdx(ls))
             l == MaxOf(NonBlankIdx(ls))
         IN  JoinLen(SubSeq(ls, f, l))

\* str.splitlines(): a final empty line is the text's trailing "\n"
SplitLines(ls) ==
    IF ls # <<>> /\ ls[Len(ls)].len = 0 THEN SubSeq(ls, 1, Len(ls) - 1) ELSE ls

----------------------------------------------------------------------------
(* OCREngine *)

\* is_scanned_page with "at least 0.8 of the page" in place of "more than"
is_scanned_page_AtLeast(page) ==
    \/ StripLen(page.text.lines) < ScanTextLimit /\ Len(page.images) > 0
    \/ \E k \in 1..Len(page.images) :
          /\ page.images[k].ok
          /\ 10 * page.images[k].w >= 8 * page.w
          /\ 10 * page.images[k].h >= 8 * page.h

\* is_scanned_page: little text and any image, or one extractable image
\* larger than 0.8 of the page in both dimensions
is_scanned_page(page) ==
    \/ StripLen(page.text.lines) < ScanTextLimit /\ Len(page.images) > 0
    \/ \E k \in 1..Len(page.images) :
          /\ page.images[k].ok
          /\ 10 * page.images[k].w > 8 * page.w
          /\ 10 * page.images[k].h > 8 * page.h

AIMarkerLine(n) == Line("body", 33, {}, "[AI-Generated Content for Page", n)
OCRFailedText(n) ==
    Text(<<Line("body", 50, {}, "[OCR processing failed for page", n)>>, {})
OCRRequiredText(n) ==
    Text(<<Line("body", 58, {}, "[OCR required for page", n)>>, {})
StillEmptyText(n) ==
    Text(<<Line("body", 45, {}, "[OCR REQUIRED: Page", n)>>, {})

\* what the three backends do on this page: each is "unavailable", "raise",
\* "empty" (falsy result) or "ok"
EasyStep(page) ==
    IF ~env.easyocr THEN "unavailable"
    ELSE CASE page.easy = "raise" -> "raise"
           [] page.easy = "empty" -> "empty"
           [] OTHER -> "ok"              \* a non-empty results list, blank or not
TessStep(page) ==
    IF ~env.tesseract THEN "unavailable"
    ELSE CASE page.tess = "raise" -> "raise"
           [] page.tess = "blank" -> "empty"   \* text.strip() is falsy
           [] OTHER -> "ok"
GroqStep(groq) == IF ~env.client THEN "unavailable" ELSE groq

\* process_page_image going from a failed EasyOCR straight to Groq
process_page_image_SkipTesseract(page, n, groq) ==
    LET e == EasyStep(page)
        g == GroqStep(groq)
        a1 == IF e = "unavailable" THEN <<>> ELSE <<"easyocr">>
        a3 == IF g = "unavailable" THEN a1 ELSE Append(a1, "groq")
    IN  IF e = "ok"
        THEN [attempts |-> a1, by |-> "easyocr",
              text |-> IF page.easy = "blank" THEN Text(<<>>, {}) ELSE page.scan]
        ELSE IF g = "ok"
        THEN [attempts |-> a3, by |-> "groq",
              text |-> Text(<<AIMarkerLine(n)>> \o page.gen.lines, page.gen.feats)]
        ELSE IF g = "raise"
        THEN [attempts |-> a3, by |-> "failed", text |-> OCRFailedText(n)]
        ELSE [attempts |-> a3, by |-> "placeholder", text |-> OCRRequiredText(n)]

\* process_page_image returning the LLM's text without the marker line
process_page_image_Unlabeled(page, n, groq) ==
    LET e == EasyStep(page)
        t == TessStep(page)
        g == GroqStep(groq)
        a1 == IF e = "unavailable" THEN <<>> ELSE <<"easyocr">>
        a2 == IF t = "unavailable" THEN a1 ELSE Append(a1, "tesseract")
        a3 == IF g = "unavailable" THEN a2 ELSE Append(a2, "groq")
    IN  IF e = "ok"
        THEN [attempts |-> a1, by |-> "easyocr",
              text |-> IF page.easy = "blank" THEN Text(<<>>, {}) ELSE page.scan]
        ELSE IF t = "ok"
        THEN [attempts |-> a2, by |-> "tesseract", text |-> page.scan]
        ELSE IF g = "ok"
        THEN [attempts |-> a3, by |-> "groq", text |-> page.gen]
        ELSE IF g = "raise"
        THEN [attempts |-> a3, by |-> "failed", text |-> OCRFailedText(n)]
        ELSE [attempts |-> a3, by |-> "placeholder", text |-> OCRRequiredText(n)]

process_page_image(page, n, groq) ==
    LET e == EasyStep(page)
        t == TessStep(page)
        g == GroqStep(groq)
        a1 == IF e = "unavailable" THEN <<>> ELSE <<"easyocr">>
        a2 == IF t = "unavailable" THEN a1 ELSE Append(a1, "tesseract")
        a3 == IF g = "unavailable" THEN a2 ELSE Append(a2, "groq")
    IN  IF e = "ok"
        THEN [attempts |-> a1, by |-> "easyocr",
              text |-> IF page.easy = "blank" THEN Text(<<>>, {}) ELSE page.scan]
        ELSE IF t = "ok"
        THEN [attempts |-> a2, by |-> "tesseract", text |-> page.scan]
        ELSE IF g = "ok"
        THEN [attempts |-> a3, by |-> "groq",
              text |-> Text(<<AIMarkerLine(n)>> \o page.gen.lines, page.gen.feats)]
        ELSE IF g = "raise"
        THEN [attempts |-> a3, by |-> "failed", text |-> OCRFailedText(n)]
        ELSE [attempts |-> a3, by |-> "placeholder", text |-> OCRRequiredText(n)]

\* _get_easyocr_reader constructing a reader whatever the global holds
_get_easyocr_reader_Always(reader, built, ctor) ==
    IF env.easyocr
    THEN IF ctor THEN [reader |-> built + 1, built |-> built + 1, raised |-> FALSE]
         ELSE [reader |-> 0, built |-> built, raised |-> TRUE]
    ELSE [reader |-> reader, built |-> built, raised |-> FALSE]

\* _get_easyocr_reader, called with the global and the number of readers
\* constructed so far; ctor: easyocr.Reader(...) returns (it raises otherwise).
\* The result holds the global after the call, which is the value returned.
_get_easyocr_reader(reader, built, ctor) ==
    IF env.easyocr /\ reader = 0
    THEN IF ctor THEN [reader |-> built + 1, built |-> built + 1, raised |-> FALSE]
         ELSE [reader |-> 0, built |-> built, raised |-> TRUE]
    ELSE [reader |-> reader, built |-> built, raised |-> FALSE]

----------------------------------------------------------------------------
(* Regex features of a text *)

\* F(pat, val): the pattern named pat matches inside the text, capturing val
F(pat, val) == [pat |-> pat, val |-> val]

HasPat(feats, pat) == \E f \in feats : f.pat = pat
Has(feats, pat, val) == F(pat, val) \in feats

----------------------------------------------------------------------------
(* TableExtractor *)

\* _parse_facility_table: one row per facility pattern that matches the segment
_parse_facility_table(feats) ==
    IF HasPat(feats, "row:Term Loan A")
    THEN <<[name |-> "Term Loan A", amount |-> 150000000, currency |-> "USD"]>>
    ELSE <<>>

\* _extract_page_tables: pricing grid, then facility schedule, by signature
\* (the fee schedule signature is not among the modelled features)
_extract_page_tables(page, n) ==
    (IF HasPat(page.text.feats, "sig:pricing")
     THEN <<[type |-> "pricing_grid", page |-> n,
             data |-> <<[rating |-> "BBB", margin_bps |-> 175]>>, confidence |-> 88]>>
     ELSE <<>>)
    \o
    (IF HasPat(page.text.feats, "sig:facility")
     THEN <<[type |-> "facility_schedule", page |-> n,
             data |-> _parse_facility_table(page.text.feats), confidence |-> 87]>>
     ELSE <<>>)

RECURSIVE extract_tables_from(_, _)
extract_tables_from(pages, n) ==
    IF n > Len(pages) THEN <<>>
    ELSE _extract_page_tables(pages[n], n) \o extract_tables_from(pages, n + 1)

extract_tables(pages) == extract_tables_from(pages, 1)

----------------------------------------------------------------------------
(* LegalExtractor.load_document *)

NewExtractor ==
    [full_text |-> <<>>, pages |-> <<>>, clauses |-> <<>>, tables |-> <<>>,
     ocr_pages |-> <<>>, target |-> 0]

ErrorText == Text(<<Line("body", 60, {}, "Error loading document:", 0)>>, {})

\* path resolution probing /app/data/<f> before data/<f>
ResolvePath_CloudFirst(exists) ==
    IF 1 \in exists THEN 1
    ELSE IF 2 \in exists THEN 2
    ELSE IF 3 \in exists THEN 3
    ELSE IF 5 \in exists THEN 5
    ELSE IF 4 \in exists THEN 4
    ELSE IF 6 \in exists THEN 6
    ELSE 1

\* the candidate paths, in the order load_document probes them: 1 the given
\* path, 2 /app/data/uploads/<f>, 3 data/uploads/<f>, 4 data/<f>,
\* 5 /app/data/<f>, 6 <f>
ResolvePath(exists) ==
    IF 1 \in exists THEN 1
    ELSE IF 2 \in exists THEN 2
    ELSE IF 3 \in exists THEN 3
    ELSE IF \E c \in {4, 5, 6} : c \in exists
         THEN MinOf({c \in {4, 5, 6} : c \in exists})
         ELSE 1    \* target_path stays the given path, which does not exist

CanOpen(file) == ResolvePath(file.exists) \in file.exists /\ file.valid

InSeq(x, sq) == \E k \in 1..Len(sq) : sq[k] = x

\* the loop body with needs_ocr read before the page's number is appended
LoadPageStep_FlagBeforeAppend(e, page, i, groq) ==
    LET scanned == is_scanned_page(page)
        ocr == process_page_image(page, i, groq)
        op1 == IF scanned THEN Append(e.ocr_pages, i) ELSE e.ocr_pages
        t1 == IF scanned THEN ocr.text ELSE page.text
        still == StripLen(t1.lines) = 0 /\ JoinLen(t1.lines) < StillEmptyLen
        t2 == IF still THEN StillEmptyText(i) ELSE t1
        op2 == IF still THEN Append(op1, i) ELSE op1
    IN  [e EXCEPT !.ocr_pages = op2,
                  !.pages = Append(@, [page |-> i, text |-> t2,
                                       needs_ocr |-> InSeq(i, e.ocr_pages)]),
                  !.full_text = Append(@, t2)]

\* one iteration of the page loop of load_document, on page i
LoadPageStep(e, page, i, groq) ==
    LET scanned == is_scanned_page(page)
        ocr == process_page_image(page, i, groq)
        op1 == IF scanned THEN Append(e.ocr_pages, i) ELSE e.ocr_pages
        t1 == IF scanned THEN ocr.text ELSE page.text
        still == StripLen(t1.lines) = 0 /\ JoinLen(t1.lines) < StillEmptyLen
        t2 == IF still THEN StillEmptyText(i) ELSE t1
        op2 == IF still THEN Append(op1, i) ELSE op1
    IN  [e EXCEPT !.ocr_pages = op2,
                  !.pages = Append(@, [page |-> i, text |-> t2,
                                       needs_ocr |-> InSeq(i, op2)]),
                  !.full_text = Append(@, t2)]

----------------------------------------------------------------------------
(* LegalExtractor.extract_clauses *)

\* every (page number, line) of self.pages, in reading order
RECURSIVE PageLines(_, _)
PageLines(ls, n) ==
    IF ls = <<>> THEN <<>>
    ELSE <<[page |-> n, line |-> Head(ls)]>> \o PageLines(Tail(ls), n)

RECURSIVE AllLines(_)
AllLines(pages) ==
    IF pages = <<>> THEN <<>>
    ELSE PageLines(SplitLines(Head(pages).text.lines), Head(pages).page)
         \o AllLines(Tail(pages))

Preamble ==
    [heading |-> "Preamble", hkws |-> {}, body |-> <<>>, page_start |-> 1, page_end |-> 1]

\* the clause is appended when its body is long enough to be closed
CloseClause(acc, current) ==
    IF StripLen(current.body) > CloseMinBody THEN Append(acc, current) ELSE acc

\* the single pass opening every clause on page 1, as the Preamble is
RECURSIVE ScanLines_StartAtOne(_, _, _)
ScanLines_StartAtOne(items, current, acc) ==
    IF items = <<>> THEN CloseClause(acc, current)
    ELSE LET it == Head(items) IN
         IF it.line.kind = "heading"
         THEN ScanLines_StartAtOne(Tail(items),
                        [heading |-> it.line.tag, hkws |-> it.line.kws, body |-> <<>>,
                         page_start |-> 1, page_end |-> it.page],
                        CloseClause(acc, current))
         ELSE ScanLines_StartAtOne(Tail(items),
                        [current EXCEPT !.body = Append(@, it.line),
                                        !.page_end = it.page],
                        acc)

\* the single pass over the lines: a heading line closes the current clause
\* and opens the next, any other line is appended to the current body
RECURSIVE ScanLines(_, _, _)
ScanLines(items, current, acc) ==
    IF items = <<>> THEN CloseClause(acc, current)
    ELSE LET it == Head(items) IN
         IF it.line.kind = "heading"
         THEN ScanLines(Tail(items),
                        [heading |-> it.line.tag, hkws |-> it.line.kws, body |-> <<>>,
                         page_start |-> it.page, page_end |-> it.page],
                        CloseClause(acc, current))
         ELSE ScanLines(Tail(items),
                        [current EXCEPT !.body = Append(@, it.line),
                                        !.page_end = it.page],
                        acc)

\* extract_clauses without its final length filter
FilterClauses_KeepAll(sq) == sq

\* [c for c in self.clauses if len(c["body"].strip()) > 80]
RECURSIVE FilterClauses(_)
FilterClauses(sq) ==
    IF sq = <<>> THEN <<>>
    ELSE (IF StripLen(Head(sq).body) > ClauseMinBody THEN <<Head(sq)>> ELSE <<>>)
         \o FilterClauses(Tail(sq))

\* rnd[k]: the value random.uniform(0.7, 0.99) rounds to for the k-th closed clause
extract_clauses(pages, rnd) ==
    LET closed == ScanLines(AllLines(pages), Preamble, <<>>)
        scored == [k \in 1..Len(closed) |->
                     [heading |-> closed[k].heading, hkws |-> closed[k].hkws,
                      body |-> closed[k].body,
                      page_start |-> closed[k].page_start, page_end |-> closed[k].page_end,
                      variance_score |-> rnd[k], is_standard |-> rnd[k] > 85]]
    IN  FilterClauses(scored)

NumClosed(pages) == Len(ScanLines(AllLines(pages), Preamble, <<>>))

----------------------------------------------------------------------------
(* LegalExtractor._get_confidence, generate_citations *)

\* offset of line k in the body, each line being followed by "\n"
RECURSIVE LineOffset(_, _)
LineOffset(body, k) == IF k = 1 THEN 0 ELSE LineOffset(body, k - 1) + body[k - 1].len + 1

InBody(kw, body) == \E k \in 1..Len(body) : kw \in body[k].kws
InBodyWindow(kw, body) ==
    \E k \in 1..Len(body) :
        kw \in body[k].kws /\ LineOffset(body, k) + KwLen(kw) <= CitationWindow
InFirstLine(kw, body) == body # <<>> /\ kw \in body[1].kws

\* hi / med: the values the two random.uniform draws round to
_get_confidence(kw, body, hi, med) ==
    IF body = <<>> THEN 0
    ELSE IF InFirstLine(kw, body) THEN hi
    ELSE IF InBody(kw, body) THEN med
    ELSE 0

Matches(kw, c) == kw \in c.hkws \/ InBodyWindow(kw, c.body)

\* generate_citations citing the last matching clause instead of the first
FirstMatch_Last(kw, clauses) ==
    IF \E k \in 1..Len(clauses) : Matches(kw, clauses[k])
    THEN MaxOf({k \in 1..Len(clauses) : Matches(kw, clauses[k])})
    ELSE 0

\* for c in self.clauses: if <match>: ...; break
FirstMatch(kw, clauses) ==
    IF \E k \in 1..Len(clauses) : Matches(kw, clauses[k])
    THEN MinOf({k \in 1..Len(clauses) : Matches(kw, clauses[k])})
    ELSE 0

RECURSIVE CitationsFrom(_, _, _)
CitationsFrom(j, clauses, rnd) ==
    IF j > Len(keywords) THEN <<>>
    ELSE LET kw == keywords[j]
             k == FirstMatch(kw, clauses)
         IN  (IF k = 0 THEN <<>>
              ELSE <<[keyword |-> kw, clause |-> clauses[k].heading,
                      page_start |-> clauses[k].page_start,
                      page_end |-> clauses[k].page_end,
                      confidence |-> _get_confidence(kw, clauses[k].body,
                                                     rnd[j].hi, rnd[j].med)]>>)
             \o CitationsFrom(j + 1, clauses, rnd)

\* rnd[j]: the draws available to the citation of the j-th keyword
generate_citations(clauses, rnd) == CitationsFrom(1, clauses, rnd)

----------------------------------------------------------------------------
(* Regex features of the extractor's texts *)

\* features of self.full_text and of head_text (the first 15 pages' text)
FullFeats(e) == UNION {e.full_text[k].feats : k \in 1..Len(e.full_text)}
HeadFeats(e) == UNION {e.pages[k].text.feats : k \in 1..Len(e.pages)}

\* re.search(pat, self.full_text).group(1): the leftmost match, None if none
Search(e, pat) ==
    IF ~HasPat(FullFeats(e), pat) THEN None
    ELSE LET k == MinOf({j \in 1..Len(e.full_text) : HasPat(e.full_text[j].feats, pat)})
         IN  (CHOOSE f \in e.full_text[k].feats : f.pat = pat).val

\* the pattern loop without its break: the last matching pattern decides
FirstPattern_Last(e, pats, j) ==
    IF \A i \in j..Len(pats) : Search(e, pats[i]) = None THEN 0
    ELSE MaxOf({i \in j..Len(pats) : Search(e, pats[i]) # None})

\* the first pattern of the ordered list that matches, 0 if none does
RECURSIVE FirstPattern(_, _, _)
FirstPattern(e, pats, j) ==
    IF j > Len(pats) THEN 0
    ELSE IF Search(e, pats[j]) # None THEN j
    ELSE FirstPattern(e, pats, j + 1)

\* int(float(s)) for the numerals of the modelled texts
IntOf(s) ==
    CASE s = "0.5" -> 0
      [] s = "200" -> 200
      [] s = "250" -> 250
      [] s = "300" -> 300
      [] s = "500000000" -> 500000000
      [] OTHER -> 0

----------------------------------------------------------------------------
(* LegalExtractor.extract_metadata *)

\* json.loads gave a dict without any of the requested keys
EmptyAI ==
    [governing_law |-> None, borrower_name |-> None, currency |-> None,
     facility_type |-> None, margin_bps |-> NoneInt, total_commitment |-> NoneInt,
     is_esg_linked |-> FALSE, agreement_date |-> None]

Truthy(s) == s # None /\ s # ""
TruthyInt(n) == n # NoneInt /\ n # 0

law_patterns == <<"law1", "law2", "law3">>
margin_patterns == <<"margin1", "margin2", "margin3">>
amt_patterns == <<"amt1", "amt2">>
date_patterns == <<"date1", "date2", "date3">>

party_patterns ==
    <<[pattern |-> "THE BANK OF NEW YORK MELLON", name |-> "The Bank of New York Mellon",
       role |-> "Administrative Agent"],
      [pattern |-> "UNITED STATES DEPARTMENT OF THE TREASURY",
       name |-> "U.S. Department of the Treasury", role |-> "Lender"],
      [pattern |-> "JPMORGAN CHASE", name |-> "JPMorgan Chase Bank", role |-> "Agent"],
      [pattern |-> "CITIBANK", name |-> "Citibank, N.A.", role |-> "Agent"],
      [pattern |-> "WELLS FARGO", name |-> "Wells Fargo Bank", role |-> "Agent"],
      [pattern |-> "BANK OF AMERICA", name |-> "Bank of America, N.A.", role |-> "Agent"],
      [pattern |-> "HSBC", name |-> "HSBC Bank", role |-> "Agent"],
      [pattern |-> "BARCLAYS", name |-> "Barclays Bank PLC", role |-> "Lender"],
      [pattern |-> "DEUTSCHE BANK", name |-> "Deutsche Bank AG", role |-> "Agent"],
      [pattern |-> "CREDIT SUISSE", name |-> "Credit Suisse AG", role |-> "Agent"],
      [pattern |-> "GOLDMAN SACHS", name |-> "Goldman Sachs Bank USA", role |-> "Lender"]>>

\* the seen_parties test answering "not seen" for every name
NameIn_Never(name, parties) == FALSE

NameIn(name, parties) == \E k \in 1..Len(parties) : parties[k].name = name

\* the institutions found in the full text (no role is stated next to a
\* name in the modelled texts, so each keeps the role of its pattern)
RECURSIVE PartiesFrom(_, _, _)
PartiesFrom(e, j, acc) ==
    IF j > Len(party_patterns) THEN acc
    ELSE LET pp == party_patterns[j] IN
         IF Has(FullFeats(e), "party", pp.pattern) /\ ~NameIn(pp.name, acc)
         THEN PartiesFrom(e, j + 1, Append(acc, [name |-> pp.name, role |-> pp.role]))
         ELSE PartiesFrom(e, j + 1, acc)

\* f"{found} Law" if "Law" not in found else found
LawName(found) ==
    CASE found = "New York" -> "New York Law"
      [] found = "English" -> "English Law"
      [] found = "England" -> "England Law"
      [] found = "Delaware" -> "Delaware Law"
      [] OTHER -> found

\* currency detection that lets the AI's currency go first
ResolveCurrency_AIFirst(head, full, given) ==
    IF Truthy(given) /\ ~HasPat(full, "TREASURY") THEN given
    ELSE IF HasPat(head, "pound sign") \/ HasPat(full, "sterling") \/ HasPat(head, "GBP")
    THEN "GBP"
    ELSE IF HasPat(head, "euro sign") \/ HasPat(head, "EUR") THEN "EUR"
    ELSE "USD"

\* currency detection: the if/elif chain over head_text and full_lower, the
\* AI's currency in its last branch; given is ai_extracted.get("currency")
ResolveCurrency(head, full, given) ==
    IF HasPat(head, "pound sign") \/ HasPat(full, "sterling") \/ HasPat(head, "GBP")
    THEN "GBP"
    ELSE IF HasPat(head, "euro sign") \/ HasPat(head, "EUR") THEN "EUR"
    ELSE IF HasPat(head, "dollar sign") \/ HasPat(head, "USD") \/ HasPat(full, "dollar")
            \/ HasPat(head, "U.S.")
    THEN "USD"
    ELSE IF Truthy(given) /\ ~HasPat(full, "TREASURY") THEN given
    ELSE "USD"

\* ai: what the Groq call of the metadata pass did: kind "none" (no client),
\* "raise", "not_json", "non_object" (valid JSON that is no dict) or "object"
extract_metadata(e, ai) ==
    IF ai.kind = "non_object"
    THEN [raised |-> TRUE]          \* ai_extracted.get on a list/str/number/None
    ELSE
    LET ai_extracted == IF ai.kind = "object" THEN ai.obj ELSE EmptyAI
        full == FullFeats(e)
        head == HeadFeats(e)
        lawp == FirstPattern(e, law_patterns, 1)
        law ==
            IF Truthy(ai_extracted.governing_law) THEN ai_extracted.governing_law
            ELSE IF lawp = 0 THEN "New York Law"
            ELSE LawName(Search(e, law_patterns[lawp]))
        borrower ==
            IF HasPat(head, "IDENTIFIED ON") \/ HasPat(head, "SIGNATURE PAGES")
            THEN "Per Signature Pages (Redacted)"
            ELSE IF HasPat(head, "SCHEDULE A") /\
                    (HasPat(head, "set forth") \/ HasPat(head, "identified"))
            THEN "Per Schedule A"
            ELSE IF Truthy(ai_extracted.borrower_name) THEN ai_extracted.borrower_name
            ELSE "Unknown Borrower"
        found_parties == PartiesFrom(e, 1, <<>>)
        parties ==
            IF ~NameIn(borrower, found_parties)
            THEN Append(found_parties, [name |-> borrower, role |-> "Borrower"])
            ELSE found_parties
        currency == ResolveCurrency(head, full, ai_extracted.currency)
        datep == FirstPattern(e, date_patterns, 1)
        agreement_date ==
            IF Truthy(ai_extracted.agreement_date) THEN ai_extracted.agreement_date
            ELSE IF datep = 0 THEN "Date per Schedule A"
            ELSE Search(e, date_patterns[datep])
        facility_type ==
            IF Truthy(ai_extracted.facility_type) THEN ai_extracted.facility_type
            ELSE IF HasPat(full, "revolving") /\ HasPat(full, "term")
            THEN "Term Loan & Revolving Credit Facility"
            ELSE IF HasPat(full, "revolving") THEN "Revolving Credit Facility"
            ELSE "Term Loan"
        marginp == FirstPattern(e, margin_patterns, 1)
        margin1 ==
            IF TruthyInt(ai_extracted.margin_bps) THEN ai_extracted.margin_bps
            ELSE IF marginp = 0 THEN NoneInt
            ELSE IntOf(Search(e, margin_patterns[marginp]))
        margin_bps == IF TruthyInt(margin1) THEN margin1 ELSE 175
        amtp == FirstPattern(e, amt_patterns, 1)
        commitment ==
            IF TruthyInt(ai_extracted.total_commitment) THEN ai_extracted.total_commitment
            ELSE IF amtp = 0 THEN ai_extracted.total_commitment
            ELSE IntOf(Search(e, amt_patterns[amtp]))
        is_esg ==
            \/ ai_extracted.is_esg_linked
            \/ HasPat(full, "esg")
    IN  [raised |-> FALSE,
         borrower_name |-> borrower,
         agreement_date |-> agreement_date,
         governing_law |-> law,
         currency |-> currency,
         is_esg_linked |-> is_esg,
         facility_type |-> facility_type,
         margin_bps |-> margin_bps,
         total_commitment |-> commitment,
         transferability_mode |->
             IF HasPat(full, "consent") THEN "Consent Required" ELSE "Open Transfer",
         esg_score |-> IF is_esg THEN 85 ELSE NoneInt,
         ocr_pages_count |-> Len(e.ocr_pages),
         tables_extracted |-> Len(e.tables),
         parties_detected |-> parties,
         extraction_confidence |-> IF env.client THEN ConfAI ELSE ConfRegex,
         ai_enhanced |-> env.client]

----------------------------------------------------------------------------
(* extract_facilities, extract_obligations, analyze_transferability,       *)
(* get_extraction_summary, build_dlr                                       *)

fac_patterns ==
    <<[pattern |-> "Facility A", name |-> "Facility A", type |-> "Term Loan",
       amount |-> 200000000],
      [pattern |-> "Facility B", name |-> "Facility B", type |-> "Term Loan",
       amount |-> 100000000],
      [pattern |-> "Revolving Facility|RCF", name |-> "Revolving Facility",
       type |-> "Revolving Credit", amount |-> 50000000]>>

\* a feature of the full text stands on its first line only when the first
\* page's text is a single line
FeatInFirstLine(e, pat) ==
    /\ e.full_text # <<>>
    /\ HasPat(e.full_text[1].feats, pat)
    /\ Len(e.full_text[1].lines) <= 1

RECURSIVE RegexFacilities(_, _, _)
RegexFacilities(e, j, rnd) ==
    IF j > Len(fac_patterns) THEN <<>>
    ELSE LET fp == fac_patterns[j] IN
         (IF HasPat(FullFeats(e), fp.pattern)
          THEN <<[name |-> fp.name, type |-> fp.type, amount |-> fp.amount,
                  currency |-> IF HasPat(FullFeats(e), "pound sign in first 1000")
                               THEN "GBP" ELSE "USD",
                  confidence |-> IF FeatInFirstLine(e, fp.pattern)
                                 THEN rnd[j].hi ELSE rnd[j].med]>>
          ELSE <<>>)
         \o RegexFacilities(e, j + 1, rnd)

FacilityTables(e) == {k \in 1..Len(e.tables) : e.tables[k].type = "facility_schedule"}

extract_facilities(e, rnd) ==
    IF FacilityTables(e) # {}
    THEN e.tables[MinOf(FacilityTables(e))].data
    ELSE RegexFacilities(e, 1, rnd)

obligation_patterns ==
    <<[title |-> "Financial Statements", role |-> "Borrower", due |-> "90 days post-YE",
       is_esg |-> FALSE],
      [title |-> "Compliance Certificate", role |-> "Borrower", due |-> "Quarterly",
       is_esg |-> FALSE],
      [title |-> "Utilization Request", role |-> "Lender", due |-> "5 Business Days",
       is_esg |-> FALSE],
      [title |-> "ESG Impact Report", role |-> "Borrower", due |-> "Annually",
       is_esg |-> TRUE]>>

\* rnd[j]: the value random.uniform(0.92, 0.99) rounds to for the j-th pattern
RECURSIVE ObligationsFrom(_, _, _)
ObligationsFrom(e, j, rnd) ==
    IF j > Len(obligation_patterns) THEN <<>>
    ELSE LET op == obligation_patterns[j] IN
         (IF Has(FullFeats(e), "obligation", op.title)
          THEN <<[role |-> op.role, title |-> op.title, due_hint |-> op.due,
                  status |-> "Draft", is_esg |-> op.is_esg, confidence |-> rnd[j]]>>
          ELSE <<>>)
         \o ObligationsFrom(e, j + 1, rnd)

extract_obligations(e, rnd) == ObligationsFrom(e, 1, rnd)

analyze_transferability(e) ==
    [mode |-> IF HasPat(FullFeats(e), "novation") THEN "Novation" ELSE "Assignment",
     consent_required |-> ~HasPat(FullFeats(e), "without consent"),
     consent_type |-> IF HasPat(FullFeats(e), "white list")
                      THEN "White-list Only" ELSE "Agent Bank",
     restrictions |-> IF HasPat(FullFeats(e), "white list")
                      THEN <<"White-listed Transferee List">> ELSE <<>>,
     confidence |-> 85]

get_extraction_summary(e) ==
    [total_pages |-> Len(e.pages),
     ocr_pages |-> e.ocr_pages,
     clauses_extracted |-> Len(e.clauses),
     tables_extracted |-> Len(e.tables),
     table_types |-> [k \in 1..Len(e.tables) |-> e.tables[k].type],
     extraction_method |-> IF env.client THEN "hybrid" ELSE "regex_only",
     groq_enhanced |-> env.client]

\* the facilities of the DLR: the extracted ones, else one synthetic facility
\* when a total commitment was extracted
DlrFacilities(e, metadata, rnd) ==
    LET facilities == extract_facilities(e, rnd) IN
    IF facilities = <<>> /\ TruthyInt(metadata.total_commitment)
    THEN <<[name |-> "Primary Facility", type |-> metadata.facility_type,
            amount |-> metadata.total_commitment, currency |-> metadata.currency,
            confidence |-> 85]>>
    ELSE facilities

DlrParties(metadata) ==
    IF metadata.parties_detected = <<>>
    THEN <<[role |-> "Administrative Agent", name |-> None],
          [role |-> "Borrower", name |-> metadata.borrower_name]>>
    ELSE metadata.parties_detected

\* the dict build_dlr returns next to extractor.clauses
build_dlr(e, metadata, rndCit, rndFac, rndObl) ==
    [borrower_name |-> metadata.borrower_name,
     agreement_date |-> metadata.agreement_date,
     governing_law |-> metadata.governing_law,
     currency |-> metadata.currency,
     facility_type |-> metadata.facility_type,
     total_commitment |-> metadata.total_commitment,
     margin_bps |-> metadata.margin_bps,
     is_esg_linked |-> metadata.is_esg_linked,
     esg_score |-> metadata.esg_score,
     transferability_mode |-> metadata.transferability_mode,
     parties |-> DlrParties(metadata),
     facilities |-> DlrFacilities(e, metadata, rndFac),
     transferability |-> analyze_transferability(e),
     obligations |-> extract_obligations(e, rndObl),
     citations |-> generate_citations(e.clauses, rndCit),
     tables |-> e.tables,
     extraction_summary |-> get_extraction_summary(e),
     extraction_confidence |-> metadata.extraction_confidence,
     ai_enhanced |-> metadata.ai_enhanced,
     total_pages |-> Len(e.pages),
     total_clauses |-> Len(e.clauses)]

----------------------------------------------------------------------------
(* The documents, environments and outside answers the model explores *)

ClauseText ==
    Text(<<Heading("Clause 1.1 Definitions", {}), Body(90, {}), Blank(0)>>,
         {F("law2", "New York")})
MarginText ==
    Text(<<Heading("Section 2 Margin", {"Margin"}), Body(60, {}),
           Body(40, {"Interest"}), Blank(0)>>,
         {F("Facility A", ""), F("obligation", "Financial Statements"),
          F("law3", "Delaware"), F("margin3", "250"), F("dollar", ""),
          F("party", "HSBC")})
PreambleText ==
    Text(<<Body(90, {"Margin"}), Blank(0)>>,
         {F("amt2", "500000000"), F("margin1", "300"),
          F("party", "UNITED STATES DEPARTMENT OF THE TREASURY"), F("TREASURY", ""),
          F("SIGNATURE PAGES", "")})
ShortBodyText ==
    Text(<<Body(60, {}), Blank(0)>>,
         {F("margin2", "200"), F("sterling", ""), F("law2", "England")})
TenCharText == Text(<<Body(10, {})>>, {})
EmptyText == Text(<<>>, {})
BlankText == Text(<<Blank(12)>>, {})
TableText == Text(<<Body(90, {}), Blank(0)>>, {F("sig:facility", "")})
\* the heading followed by exactly 80 characters of body
Clause80Text ==
    Text(<<Heading("Clause 1.1 Definitions", {}), Body(80, {}), Blank(0)>>, {})
\* a clause whose body names a keyword only after its first 500 characters
LongText ==
    Text(<<Heading("Clause 9 Miscellaneous", {}), Body(520, {"Interest"}),
           Body(40, {"Assignment"}), Blank(0)>>, {})
\* a term sheet: governing law, a margin below one basis point, an agent bank
TermsText ==
    Text(<<Body(50, {"Governing Law"}), Body(45, {"Margin"}), Blank(0)>>,
         {F("law1", "English"), F("law2", "New York"), F("margin1", "0.5"),
          F("party", "CITIBANK"), F("pound sign", ""), F("pound sign in first 1000", ""),
          F("euro sign", "")})
\* a facility schedule with one row
ScheduleText ==
    Text(<<Body(40, {}), Body(50, {}), Blank(0)>>,
         {F("sig:facility", ""), F("row:Term Loan A", "150000000"),
          F("EUR", ""), F("dollar sign", ""), F("SCHEDULE A", ""), F("set forth", "")})

\* what the OCR backends read from a page image, what the LLM writes for a page
ScanText ==
    Text(<<Heading("Article 3 Interest", {"Interest"}), Body(100, {"Interest"})>>,
         {F("law2", "New York")})
GenText ==
    Text(<<Heading("Section 1 Definitions", {}), Body(120, {"Governing Law"})>>, {})

Image(w, h, ok) == [w |-> w, h |-> h, ok |-> ok]

Page(text, images, easy, tess) ==
    [w |-> 1000, h |-> 1000, text |-> text, images |-> images,
     easy |-> easy, tess |-> tess, scan |-> ScanText, gen |-> GenText]

NativePages ==
    {Page(t, <<>>, "text", "text") :
        t \in {ClauseText, MarginText, PreambleText, ShortBodyText, EmptyText,
                BlankText, TableText, TermsText, ScheduleText, LongText, Clause80Text}}

ImagePages ==
    {Page(TenCharText, <<Image(975, 975, TRUE)>>, "text", "text"),
     Page(EmptyText, <<Image(300, 300, TRUE)>>, "empty", "blank"),
     Page(EmptyText, <<Image(300, 300, TRUE)>>, "blank", "text"),
     Page(ClauseText, <<Image(800, 800, TRUE)>>, "text", "text"),
     Page(ClauseText, <<Image(950, 950, FALSE)>>, "text", "text"),
     Page(ClauseText, <<Image(900, 900, TRUE)>>, "raise", "text"),
     Page(ClauseText, <<Image(900, 500, TRUE)>>, "text", "text")}

PageKinds == NativePages \cup ImagePages

\* the pages that follow a document's first page
LaterPageKinds ==
    {Page(ShortBodyText, <<>>, "text", "text"),
     Page(MarginText, <<>>, "text", "text"),
     Page(ClauseText, <<>>, "text", "text"),
     Page(TenCharText, <<Image(975, 975, TRUE)>>, "text", "text"),
     Page(EmptyText, <<Image(300, 300, TRUE)>>, "blank", "text")}

\* the pages that follow a document's second page: scanned ones
TailPageKinds ==
    {Page(TenCharText, <<Image(975, 975, TRUE)>>, "text", "text")}

PageSeqs ==
    {ps \in UNION {[1..n -> PageKinds] : n \in 0..MaxPages} :
        /\ \A k \in 2..Len(ps) : ps[k] \in LaterPageKinds
        /\ \A k \in 3..Len(ps) : ps[k] \in TailPageKinds}

\* files that open at the given path, and files that moved, vanished or are no PDF
Docs ==
    {[exists |-> {1}, valid |-> TRUE, pages |-> ps] : ps \in PageSeqs}
    \cup
    {[exists |-> x, valid |-> v, pages |-> <<Page(PreambleText, <<>>, "text", "text")>>] :
        x \in {{}, {3}, {2, 5}, {4, 5}, {6}}, v \in BOOLEAN}

\* the documents on which process_document is called again: those that do
\* not open, the empty one, and those of one page of these kinds
RerunPageKinds ==
    {Page(ShortBodyText, <<>>, "text", "text"),
     Page(TenCharText, <<Image(975, 975, TRUE)>>, "text", "text"),
     Page(EmptyText, <<Image(300, 300, TRUE)>>, "blank", "text")}

RerunDocs ==
    {d \in Docs : \/ ~CanOpen(d)
                  \/ d.pages = <<>>
                  \/ Len(d.pages) = 1 /\ d.pages[1] \in RerunPageKinds}

Envs == [easyocr : BOOLEAN, tesseract : BOOLEAN, client : BOOLEAN]

\* the OCR libraries are varied on the documents whose first page is scanned
EnvFits(e, d) ==
    (d.pages = <<>> \/ ~is_scanned_page(d.pages[1])) => (~e.easyocr /\ ~e.tesseract)

FullAI ==
    [governing_law |-> "English Law", borrower_name |-> "Acme Holdings Ltd",
     currency |-> "EUR", facility_type |-> "Revolving", margin_bps |-> 250,
     total_commitment |-> 500000000, is_esg_linked |-> TRUE,
     agreement_date |-> "June 15, 2024"]

\* an answer naming only the borrower, by the display name of an agent bank
AgentAI == [EmptyAI EXCEPT !.borrower_name = "Citibank, N.A."]

\* an answer giving the margin as a text such as "SOFR + 2.50%"
TextMarginAI == [EmptyAI EXCEPT !.margin_bps = NonNumeric]

AIAnswer(kind, obj) == [kind |-> kind, obj |-> obj]

\* what the metadata pass can get back from the LLM (the answer with a text
\* margin is explored on the one-page documents that are processed once)
AIAnswers ==
    IF env.client
    THEN {AIAnswer("raise", EmptyAI), AIAnswer("not_json", EmptyAI),
          AIAnswer("non_object", EmptyAI), AIAnswer("object", EmptyAI),
          AIAnswer("object", FullAI), AIAnswer("object", AgentAI)}
         \cup (IF Len(pdf.pages) = 1 /\ pdf \notin RerunDocs
                THEN {AIAnswer("object", TextMarginAI)} ELSE {})
    ELSE {AIAnswer("none", EmptyAI)}

\* the ends of the ranges random.uniform draws from
VarianceDraws == {85, 99}
HighDraw(b) == IF b = 0 THEN 95 ELSE 99
MedDraw(b) == IF b = 0 THEN 85 ELSE 94
OblDraw(b) == IF b = 0 THEN 92 ELSE 99

----------------------------------------------------------------------------
(* State machine: process_document of routers/loans.py calling build_dlr *)

\* a Loan row as create_loan leaves it (the column defaults of models/tables.py)
NewLoan ==
    [agreement_date |-> None, governing_law |-> "English Law", borrower_name |-> None,
     facility_type |-> "Term Loan", currency |-> "GBP", margin_bps |-> NoneInt,
     is_esg_linked |-> FALSE, esg_score |-> NoneInt,
     transferability_mode |-> "Consent required",
     dlr_json |-> <<>>, version |-> 1, clauses |-> <<>>]

NoMeta == [raised |-> FALSE]

Init ==
    /\ env \in Envs
    /\ pdf \in Docs
    /\ EnvFits(env, pdf)
    /\ loan = NewLoan
    /\ doc = [status |-> "uploaded", error |-> FALSE]
    /\ pc = "idle"
    /\ ex = NewExtractor
    /\ meta = NoMeta
    /\ out = <<>>
    /\ ocrLog = <<>>
    /\ run = [n |-> 0, max |-> IF pdf \in RerunDocs THEN MaxRuns ELSE 1, ai |-> "pending",
              obj |-> EmptyAI]
    /\ prev = <<>>
    /\ resp = <<>>
    /\ _easyocr_reader = 0
    /\ readers = 0
    /\ workers = <<>>

\* process_document up to its first commit: the document is "processing"
\* and build_dlr constructs its LegalExtractor
ProcessDocumentBegin ==
    /\ pc = "idle"
    /\ run.n < run.max
    /\ doc' = [status |-> "processing", error |-> FALSE]
    /\ ex' = NewExtractor
    /\ meta' = NoMeta
    /\ out' = <<>>
    /\ ocrLog' = <<>>
    /\ run' = [run EXCEPT !.n = @ + 1, !.ai = "pending", !.obj = EmptyAI]
    /\ prev' = IF out = <<>> THEN prev
               ELSE <<[out |-> out[1], ai |-> run.ai, ocrLog |-> ocrLog]>>
    /\ pc' = "open"
    /\ UNCHANGED <<env, pdf, loan, _easyocr_reader, readers, workers>>
    /\ resp' = <<>>

\* load_document: path resolution and fitz.open; a failure is caught by the
\* except clause, which replaces full_text by the error message
LoadOpen ==
    /\ pc = "open"
    /\ IF CanOpen(pdf)
       THEN /\ ex' = [ex EXCEPT !.target = ResolvePath(pdf.exists)]
            /\ pc' = "page"
       ELSE /\ ex' = [ex EXCEPT !.target = ResolvePath(pdf.exists),
                                    !.full_text = <<ErrorText>>]
            /\ pc' = "clauses"
    /\ UNCHANGED <<env, pdf, loan, doc, meta, out, ocrLog, run, prev, resp, _easyocr_reader, readers, workers>>

\* the outcomes of easyocr.Reader(...) on this page: an exception inside the
\* EasyOCR block can come from the constructor or from what follows it
CtorOutcomes(page) ==
    IF page.easy = "raise" /\ _easyocr_reader = 0 THEN BOOLEAN ELSE {TRUE}

\* load_document: one iteration of the page loop
LoadPage ==
    /\ pc = "page"
    /\ Len(ex.pages) < Len(pdf.pages)
    /\ LET i == Len(ex.pages) + 1
           page == pdf.pages[i]
           called == is_scanned_page(page) /\ env.easyocr
       IN  \E groq \in {"ok", "raise"}, ctor \in CtorOutcomes(page) :
              LET got == IF called
                         THEN _get_easyocr_reader(_easyocr_reader, readers, ctor)
                         ELSE [reader |-> _easyocr_reader, built |-> readers,
                               raised |-> FALSE]
              IN
              /\ ex' = LoadPageStep(ex, page, i, groq)
              /\ _easyocr_reader' = got.reader
              /\ readers' = got.built
              /\ ocrLog' =
                    IF is_scanned_page(page)
                    THEN Append(ocrLog,
                                [page |-> i,
                                 easy |-> EasyStep(page), tess |-> TessStep(page),
                                 groq |-> GroqStep(groq),
                                 attempts |-> process_page_image(page, i, groq).attempts,
                                 by |-> process_page_image(page, i, groq).by,
                                 text |-> process_page_image(page, i, groq).text,
                                 reader |-> IF called THEN got.reader ELSE 0])
                    ELSE ocrLog
    /\ UNCHANGED <<env, pdf, loan, doc, pc, meta, out, run, prev, resp, workers>>

\* load_document after the last page: the tables, doc.close(), return self
LoadTables ==
    /\ pc = "page"
    /\ Len(ex.pages) = Len(pdf.pages)
    /\ ex' = [ex EXCEPT !.tables = extract_tables(pdf.pages)]
    /\ pc' = "clauses"
    /\ UNCHANGED <<env, pdf, loan, doc, meta, out, ocrLog, run, prev, resp, _easyocr_reader, readers, workers>>

ExtractClauses ==
    /\ pc = "clauses"
    /\ \E rnd \in [1..NumClosed(ex.pages) -> VarianceDraws] :
          ex' = [ex EXCEPT !.clauses = extract_clauses(ex.pages, rnd)]
    /\ pc' = "metadata"
    /\ UNCHANGED <<env, pdf, loan, doc, meta, out, ocrLog, run, prev, resp, _easyocr_reader, readers, workers>>

\* extract_metadata; an exception leaves build_dlr and reaches process_document
ExtractMetadata ==
    /\ pc = "metadata"
    /\ \E ai \in AIAnswers :
          /\ meta' = extract_metadata(ex, ai)
          /\ run' = [run EXCEPT !.ai = ai.kind,
                             !.obj = IF ai.kind = "object" THEN ai.obj ELSE EmptyAI]
          /\ pc' = IF extract_metadata(ex, ai).raised THEN "raised" ELSE "assemble"
    /\ UNCHANGED <<env, pdf, loan, doc, ex, out, ocrLog, prev, resp, _easyocr_reader, readers, workers>>

\* the indices whose random draw can show in the result
CitDrawIdx ==
    {j \in 1..Len(keywords) :
        /\ FirstMatch(keywords[j], ex.clauses) # 0
        /\ InBody(keywords[j], ex.clauses[FirstMatch(keywords[j], ex.clauses)].body)}
FacDrawIdx ==
    {j \in 1..Len(fac_patterns) :
        FacilityTables(ex) = {} /\ HasPat(FullFeats(ex), fac_patterns[j].pattern)}
OblDrawIdx ==
    {j \in 1..Len(obligation_patterns) :
        Has(FullFeats(ex), "obligation", obligation_patterns[j].title)}

Bit(b, j) == IF j \in DOMAIN b THEN b[j] ELSE 0

\* the rest of build_dlr: parties, facilities, citations, ..., the returned pair
BuildDlrReturn ==
    /\ pc = "assemble"
    /\ \E cb \in [CitDrawIdx -> {0, 1}], fb \in [FacDrawIdx -> {0, 1}],
          ob \in [OblDrawIdx -> {0, 1}] :
          LET rndCit == [j \in 1..Len(keywords) |->
                            [hi |-> HighDraw(Bit(cb, j)), med |-> MedDraw(Bit(cb, j))]]
              rndFac == [j \in 1..Len(fac_patterns) |->
                            [hi |-> HighDraw(Bit(fb, j)), med |-> MedDraw(Bit(fb, j))]]
              rndObl == [j \in 1..Len(obligation_patterns) |-> OblDraw(Bit(ob, j))]
              res == [dlr |-> build_dlr(ex, meta, rndCit, rndFac, rndObl),
                      clauses |-> ex.clauses]
          IN  out' = <<res>>
    /\ pc' = "update"
    /\ UNCHANGED <<env, pdf, loan, doc, ex, meta, ocrLog, run, prev, resp, _easyocr_reader, readers, workers>>

StripLines(ls) ==
    IF NonBlankIdx(ls) = {} THEN <<>>
    ELSE SubSeq(ls, MinOf(NonBlankIdx(ls)), MaxOf(NonBlankIdx(ls)))

ClauseRow(c) ==
    [heading |-> c.heading, body |-> StripLines(c.body),
     page_start |-> c.page_start, page_end |-> c.page_end,
     variance_score |-> c.variance_score, is_standard |-> c.is_standard]

\* process_document after build_dlr returned: the loan's canonical fields,
\* dlr_json, version and clause rows, the document "ready", one commit
ProcessDocumentUpdate ==
    /\ pc = "update"
    /\ LET dlr == out[1].dlr
           clauses == out[1].clauses
       IN  loan' = [agreement_date |-> dlr.agreement_date,
                    governing_law |-> dlr.governing_law,
                    borrower_name |-> dlr.borrower_name,
                    facility_type |-> dlr.facility_type,
                    currency |-> dlr.currency,
                    margin_bps |-> dlr.margin_bps,
                    is_esg_linked |-> dlr.is_esg_linked,
                    esg_score |-> dlr.esg_score,
                    transferability_mode |-> dlr.transferability.mode,
                    dlr_json |-> <<dlr>>,
                    version |-> loan.version + 1,
                    clauses |-> [k \in 1..Len(clauses) |-> ClauseRow(clauses[k])]]
    /\ doc' = [doc EXCEPT !.status = "ready"]
    /\ pc' = "idle"
    /\ UNCHANGED <<env, pdf, ex, meta, out, ocrLog, run, prev, resp, _easyocr_reader, readers, workers>>

\* process_document when build_dlr raised: the document "failed", HTTP 500
ProcessDocumentFailed ==
    /\ pc = "raised"
    /\ doc' = [status |-> "failed", error |-> TRUE]
    /\ pc' = "idle"
    /\ UNCHANGED <<env, pdf, loan, ex, meta, out, ocrLog, run, prev, resp, _easyocr_reader, readers, workers>>

Next ==
    \/ ProcessDocumentBegin
    \/ LoadOpen
    \/ LoadPage
    \/ LoadTables
    \/ ExtractClauses
    \/ ExtractMetadata
    \/ BuildDlrReturn
    \/ ProcessDocumentUpdate
    \/ ProcessDocumentFailed

Spec == Init /\ [][Next]_vars

----------------------------------------------------------------------------
(* The handlers that read the stored DLR: get_dlr and get_loan_stats of    *)
(* routers/loans.py, _get_total_commitment of routers/agent.py and of      *)
(* services/video_gen.py                                                   *)

SyntheticCommitment == 350000000

\* the fields of the response model DLR (models/schemas.py) that build_dlr
\* fills in the model; pydantic ignores every key that is no field
DLRFields ==
    {"agreement_date", "governing_law", "borrower_name", "facility_type", "margin_bps",
     "currency", "parties", "facilities", "transferability", "obligations", "citations"}

\* the default of a field of DLR: None, [] or {}
FieldDefault(f) ==
    CASE f = "margin_bps" -> NoneInt
      [] f \in {"parties", "facilities", "transferability", "obligations", "citations"} -> <<>>
      [] OTHER -> None

\* the DLR create_sample_loan stores, cut to the first entries of its lists
\* and to the keys the handlers of the model read
SampleDlr ==
    [agreement_date |-> "2024-06-15", governing_law |-> "English Law",
     borrower_name |-> "Greener Horizons Ltd",
     facility_type |-> "Sustainability-Linked Revolving Facility", currency |-> "GBP",
     facilities |-> <<[name |-> "Facility A (Term Loan)", type |-> "Term Loan",
                       amount |-> 250000000, currency |-> "GBP"],
                      [name |-> "Facility B (RCF)", type |-> "Revolving Credit Facility",
                       amount |-> 100000000, currency |-> "GBP"]>>,
     parties |-> <<[role |-> "Borrower", name |-> "Greener Horizons Ltd"],
                   [role |-> "Guarantor", name |-> "Greener Holdings PLC"]>>,
     transferability |-> [mode |-> "LMA Standard", consent_required |-> TRUE],
     citations |-> <<[keyword |-> "Governing Law", clause |-> "Clause 42.1 Governing Law",
                      page_start |-> 112, confidence |-> 99]>>]

\* the Loan row create_sample_loan commits
SampleLoan ==
    [agreement_date |-> "2024", governing_law |-> "English Law",
     borrower_name |-> "Greener Horizons Ltd",
     facility_type |-> "Sustainability-Linked Revolving Facility", currency |-> "GBP",
     margin_bps |-> 175, is_esg_linked |-> TRUE, esg_score |-> 92,
     transferability_mode |-> "Consent required (standard LMA)",
     dlr_json |-> <<SampleDlr>>, version |-> 1, clauses |-> <<>>]

\* the ids a request can name: the loan process_document works on, the sample
\* loan, and an id no row has
LoanIds == {"loan", "sample", "missing"}

\* session.get(Loan, loan_id): the row, or nothing
session_get(loan_id) ==
    CASE loan_id = "loan" -> <<loan>>
      [] loan_id = "sample" -> <<SampleLoan>>
      [] OTHER -> <<>>

\* DLR(loan_id=loan.id, **data) validates: margin_bps is Optional[int]
Validates(data) == "margin_bps" \in DOMAIN data => data.margin_bps # NonNumeric

\* get_dlr: 404 without the loan, 409 without a stored DLR, else
\* DLR(loan_id=loan.id, **data); a ValidationError is an unhandled exception,
\* which the framework answers with 500
get_dlr(loan_id) ==
    LET found == session_get(loan_id) IN
    IF found = <<>>
    THEN [op |-> "get_dlr", loan_id |-> loan_id, status |-> 404, body |-> <<>>]
    ELSE IF found[1].dlr_json = <<>>
    THEN [op |-> "get_dlr", loan_id |-> loan_id, status |-> 409, body |-> <<>>]
    ELSE LET data == found[1].dlr_json[1] IN
         IF ~Validates(data)
         THEN [op |-> "get_dlr", loan_id |-> loan_id, status |-> 500, body |-> <<>>]
         ELSE [op |-> "get_dlr", loan_id |-> loan_id, status |-> 200,
               body |-> [f \in DLRFields |->
                           IF f \in DOMAIN data THEN data[f] ELSE FieldDefault(f)]]

\* the facilities list a consumer iterates: dlr.get("facilities", [])
StoredFacilities(l) == IF l.dlr_json = <<>> THEN <<>> ELSE l.dlr_json[1].facilities

RECURSIVE SumAmounts(_)
SumAmounts(facs) == IF facs = <<>> THEN 0 ELSE Head(facs).amount + SumAmounts(Tail(facs))

\* routers/agent.py
_get_total_commitment(l) ==
    IF l.dlr_json = <<>> THEN SyntheticCommitment
    ELSE IF SumAmounts(StoredFacilities(l)) > 0 THEN SumAmounts(StoredFacilities(l))
    ELSE SyntheticCommitment

\* services/video_gen.py, called by generate_script with dlr = {} when the
\* loan has no dlr_json
VideoGenerator_get_total_commitment(l) ==
    IF SumAmounts(StoredFacilities(l)) > 0 THEN SumAmounts(StoredFacilities(l))
    ELSE SyntheticCommitment

\* get_loan_stats: total_commitments starts at 0 and adds what it finds
get_loan_stats(l) == SumAmounts(StoredFacilities(l))

Total(op, n) == [op |-> op, status |-> 200, body |-> [total_commitment |-> n]]

GetDlr ==
    /\ pc = "idle"
    /\ \E loan_id \in LoanIds : resp' = <<get_dlr(loan_id)>>
    /\ UNCHANGED <<env, pdf, loan, doc, pc, ex, meta, out, ocrLog, run, prev, _easyocr_reader, readers, workers>>

AgentTotalCommitment ==
    /\ pc = "idle"
    /\ resp' = <<Total("agent", _get_total_commitment(loan))>>
    /\ UNCHANGED <<env, pdf, loan, doc, pc, ex, meta, out, ocrLog, run, prev, _easyocr_reader, readers, workers>>

VideoTotalCommitment ==
    /\ pc = "idle"
    /\ resp' = <<Total("video_gen", VideoGenerator_get_total_commitment(loan))>>
    /\ UNCHANGED <<env, pdf, loan, doc, pc, ex, meta, out, ocrLog, run, prev, _easyocr_reader, readers, workers>>

GetLoanStats ==
    /\ pc = "idle"
    /\ resp' = <<Total("get_loan_stats", get_loan_stats(loan))>>
    /\ UNCHANGED <<env, pdf, loan, doc, pc, ex, meta, out, ocrLog, run, prev, _easyocr_reader, readers, workers>>

NextApi ==
    \/ Next
    \/ GetDlr
    \/ AgentTotalCommitment
    \/ VideoTotalCommitment
    \/ GetLoanStats

\* process_document and the read handlers, one request at a time
SpecApi == Init /\ [][NextApi]_vars

----------------------------------------------------------------------------
(* Failures of the libraries under process_document: PyMuPDF raising while  *)
(* a page is read or rendered or while the tables are extracted, and the    *)
(* database raising while the result is stored                              *)

\* load_document: page i raises, in is_scanned_page (page.get_text,
\* page.get_images) or, for a scanned page, in process_page_image
\* (page.get_pixmap, after the page's number was appended to ocr_pages); the
\* except clause replaces full_text by the error message and returns self
LoadPageRaises ==
    /\ pc = "page"
    /\ Len(ex.pages) < Len(pdf.pages)
    /\ LET i == Len(ex.pages) + 1 IN
       \E at \in {"is_scanned_page", "process_page_image"} :
          /\ at = "process_page_image" => is_scanned_page(pdf.pages[i])
          /\ ex' = [ex EXCEPT !.ocr_pages = IF at = "process_page_image"
                                            THEN Append(@, i) ELSE @,
                              !.full_text = <<ErrorText>>]
    /\ pc' = "clauses"
    /\ UNCHANGED <<env, pdf, loan, doc, meta, out, ocrLog, run, prev, resp,
                   _easyocr_reader, readers, workers>>

\* load_document: table_extractor.extract_tables() raises after the last page
LoadTablesRaises ==
    /\ pc = "page"
    /\ Len(ex.pages) = Len(pdf.pages)
    /\ ex' = [ex EXCEPT !.full_text = <<ErrorText>>]
    /\ pc' = "clauses"
    /\ UNCHANGED <<env, pdf, loan, doc, meta, out, ocrLog, run, prev, resp,
                   _easyocr_reader, readers, workers>>

\* process_document after build_dlr returned: a statement of the update (a
\* query, a flush, the commit) raises; nothing catches it, the session is
\* closed without commit, and the rows keep what the last commit wrote
ProcessDocumentUpdateRaises ==
    /\ pc = "update"
    /\ pc' = "idle"
    /\ UNCHANGED <<env, pdf, loan, doc, ex, meta, out, ocrLog, run, prev, resp,
                   _easyocr_reader, readers, workers>>

NextFaults ==
    \/ Next
    \/ LoadPageRaises
    \/ LoadTablesRaises
    \/ ProcessDocumentUpdateRaises

\* process_document with the failures of its libraries
SpecFaults == Init /\ [][NextFaults]_vars

----------------------------------------------------------------------------
(* Two extractions running at the same time (the handlers are plain def     *)
(* functions, which the framework runs on a thread pool): each worker is    *)
(* the load_document of one request on a document of scanned pages, and     *)
(* calls OCREngine._get_easyocr_reader once per page.  The steps of a call  *)
(* are the reads and the write of the module global _easyocr_reader.        *)

Workers == {"w1", "w2"}

\* pc: "idle" between two calls, else the next step of the running call;
\* obj: the reader this call constructed; rets: what each finished call
\* returned (0 for None and for a call that raised)
NewWorker == [pc |-> "idle", obj |-> 0, rets |-> <<>>]

ScannedDoc ==
    [exists |-> {1}, valid |-> TRUE,
     pages |-> <<Page(TenCharText, <<Image(975, 975, TRUE)>>, "text", "text")>>]

InitWorkers ==
    /\ env \in {e \in Envs : e.easyocr}
    /\ pdf = ScannedDoc
    /\ loan = NewLoan
    /\ doc = [status |-> "processing", error |-> FALSE]
    /\ pc = "page"
    /\ ex = NewExtractor
    /\ meta = NoMeta
    /\ out = <<>>
    /\ ocrLog = <<>>
    /\ run = [n |-> 1, max |-> 1, ai |-> "pending", obj |-> EmptyAI]
    /\ prev = <<>>
    /\ resp = <<>>
    /\ _easyocr_reader = 0
    /\ readers = 0
    /\ workers = [w \in Workers |-> NewWorker]

WorkerStep(w, rec) ==
    /\ workers' = [workers EXCEPT ![w] = rec]
    /\ UNCHANGED <<env, pdf, loan, doc, pc, ex, meta, out, ocrLog, run, prev, resp>>

\* process_page_image enters _get_easyocr_reader for the next scanned page
WorkerCall(w) ==
    /\ workers[w].pc = "idle"
    /\ Len(workers[w].rets) < MaxPages
    /\ WorkerStep(w, [workers[w] EXCEPT !.pc = "test"])
    /\ UNCHANGED <<_easyocr_reader, readers>>

\* if EASYOCR_AVAILABLE and _easyocr_reader is None
WorkerTest(w) ==
    /\ workers[w].pc = "test"
    /\ WorkerStep(w, [workers[w] EXCEPT
                         !.pc = IF env.easyocr /\ _easyocr_reader = 0
                                THEN "construct" ELSE "return"])
    /\ UNCHANGED <<_easyocr_reader, readers>>

\* easyocr.Reader(['en'], gpu=False) returns a new reader, or raises
WorkerConstruct(w) ==
    /\ workers[w].pc = "construct"
    /\ \/ /\ readers' = readers + 1
          /\ WorkerStep(w, [workers[w] EXCEPT !.pc = "store", !.obj = readers + 1])
       \/ /\ readers' = readers
          /\ WorkerStep(w, [workers[w] EXCEPT !.pc = "idle", !.rets = Append(@, 0)])
    /\ UNCHANGED _easyocr_reader

\* _easyocr_reader = <the new reader>
WorkerStore(w) ==
    /\ workers[w].pc = "store"
    /\ _easyocr_reader' = workers[w].obj
    /\ WorkerStep(w, [workers[w] EXCEPT !.pc = "return"])
    /\ UNCHANGED readers

\* return _easyocr_reader
WorkerReturn(w) ==
    /\ workers[w].pc = "return"
    /\ WorkerStep(w, [workers[w] EXCEPT !.pc = "idle", !.obj = 0,
                                        !.rets = Append(@, _easyocr_reader)])
    /\ UNCHANGED <<_easyocr_reader, readers>>

NextWorkers ==
    \E w \in Workers :
        \/ WorkerCall(w)
        \/ WorkerTest(w)
        \/ WorkerConstruct(w)
        \/ WorkerStore(w)
        \/ WorkerReturn(w)

SpecWorkers == InitWorkers /\ [][NextWorkers]_vars

----------------------------------------------------------------------------
(* Properties *)

Returned == out # <<>>
Dlr == out[1].dlr
SentToOcr(k) == \E j \in 1..Len(ocrLog) : ocrLog[j].page = k

\* C1: the DLR build_dlr returns always has at least one facility, also
\* without facility table, facility text and extracted total commitment.
C1_FacilitiesNonEmpty ==
    Returned => Len(Dlr.facilities) >= 1

\* C2: every clause extract_clauses returns has page_start <= page_end and a
\* stripped body longer than 80 characters, the Preamble and clauses whose
\* body spans several pages included.
C2_ClausesWellFormed ==
    \A k \in 1..Len(ex.clauses) :
        /\ ex.clauses[k].page_start <= ex.clauses[k].page_end
        /\ StripLen(ex.clauses[k].body) > ClauseMinBody

C2_Witness ==
    /\ pc = "metadata"
    /\ \E k \in 1..Len(ex.clauses) :
          ex.clauses[k].heading = "Preamble" /\ ex.clauses[k].page_start < ex.clauses[k].page_end
    /\ \E k \in 1..Len(ex.clauses) : ex.clauses[k].heading # "Preamble"

Rank(b) == CASE b = "easyocr" -> 1 [] b = "tesseract" -> 2 [] b = "groq" -> 3
Tried(r, b) == InSeq(b, r.attempts)
Failed(x) == x \in {"unavailable", "raise", "empty"}

C4_RegexRunsIdentical ==
    (~env.client /\ Returned /\ prev # <<>>) => out[1] = prev[1].out

\* C5: when no candidate path exists or the file is no valid PDF, build_dlr
\* raises and returns nothing, and process_document ends with the document
\* "failed" and the loan untouched.
C5_UnopenableAborts ==
    (~CanOpen(pdf) /\ run.n >= 1 /\ pc = "idle") =>
        (doc.status = "failed" /\ ~Returned /\ loan = NewLoan)

\* the fields extract_metadata derives from the document
DocFields(m) ==
    [borrower_name |-> m.borrower_name, governing_law |-> m.governing_law,
     currency |-> m.currency, is_esg_linked |-> m.is_esg_linked,
     facility_type |-> m.facility_type, margin_bps |-> m.margin_bps,
     total_commitment |-> m.total_commitment,
     transferability_mode |-> m.transferability_mode, esg_score |-> m.esg_score,
     parties_detected |-> m.parties_detected]

\* C6: a failed AI pass (the call raises, the answer is no JSON, or it is
\* JSON but no object) is not fatal: extract_metadata returns, every field
\* has its regex-only value, and build_dlr does not raise.
C6_AIFailureNonFatal ==
    (run.ai \in {"raise", "not_json", "non_object"}) =>
        /\ ~meta.raised
        /\ pc # "raised"
        /\ DocFields(meta) = DocFields(extract_metadata(ex, AIAnswer("none", EmptyAI)))

AIFailed(kind) == kind \in {"raise", "not_json"}
PlaceholderPage(log) ==
    \E j \in 1..Len(log) : log[j].by \in {"failed", "placeholder"}
Degraded(kind, log) == AIFailed(kind) \/ PlaceholderPage(log)

\* C7: of two runs on the same document, the one in which the AI pass failed
\* or a page fell back to an OCR placeholder has the strictly lower
\* extraction_confidence.
C7_DegradationLowersConfidence ==
    (Returned /\ prev # <<>> /\ Degraded(run.ai, ocrLog)
       /\ ~Degraded(prev[1].ai, prev[1].ocrLog)) =>
        Dlr.extraction_confidence < prev[1].out.dlr.extraction_confidence

\* C8: every page load_document sends to process_page_image is in ocr_pages;
\* a page's needs_ocr flag is true exactly when its number is in ocr_pages;
\* a page that is not scanned and has non-empty text is not in ocr_pages;
\* extraction_summary.ocr_pages is that list.
C8_OcrPagesRecorded ==
    /\ \A k \in 1..Len(pdf.pages) : SentToOcr(k) => InSeq(k, ex.ocr_pages)
    /\ \A k \in 1..Len(ex.pages) :
          ex.pages[k].needs_ocr <=> InSeq(ex.pages[k].page, ex.ocr_pages)
    /\ \A k \in 1..Len(ex.pages) :
          (~SentToOcr(k) /\ StripLen(pdf.pages[k].text.lines) > 0)
              => ~InSeq(k, ex.ocr_pages)
    /\ Returned => Dlr.extraction_summary.ocr_pages = ex.ocr_pages

C8_Witness ==
    /\ Returned
    /\ \E k \in 1..Len(ex.pages) : SentToOcr(k) /\ ex.pages[k].needs_ocr
    /\ \E k \in 1..Len(ex.pages) :
          ~SentToOcr(k) /\ StripLen(pdf.pages[k].text.lines) > 0 /\ ~ex.pages[k].needs_ocr

LittleTextAndImage(page) ==
    StripLen(page.text.lines) < ScanTextLimit /\ Len(page.images) >= 1

\* C9 as stated: a page is classified as scanned exactly when it has fewer
\* than 50 characters of text and an image, or an image whose width and
\* height are each at least 80% of the page's.
C9_ScannedAtLeast80 ==
    \A k \in 1..Len(ex.pages) :
        SentToOcr(k) <=>
            \/ LittleTextAndImage(pdf.pages[k])
            \/ \E m \in 1..Len(pdf.pages[k].images) :
                  /\ 100 * pdf.pages[k].images[m].w >= 80 * pdf.pages[k].w
                  /\ 100 * pdf.pages[k].images[m].h >= 80 * pdf.pages[k].h

\* C9 amended: a page is classified as scanned exactly when it has fewer than
\* 50 characters of text and an image, or an image that can be extracted and
\* whose width and height are each strictly more than 80% of the page's; a
\* page with 10 characters and one image over 95% of the page is scanned.
C9_ScannedAbove80 ==
    \A k \in 1..Len(ex.pages) :
        SentToOcr(k) <=>
            \/ LittleTextAndImage(pdf.pages[k])
            \/ \E m \in 1..Len(pdf.pages[k].images) :
                  /\ pdf.pages[k].images[m].ok
                  /\ 100 * pdf.pages[k].images[m].w > 80 * pdf.pages[k].w
                  /\ 100 * pdf.pages[k].images[m].h > 80 * pdf.pages[k].h

C9_Witness ==
    \E k \in 1..Len(ex.pages) :
        /\ StripLen(pdf.pages[k].text.lines) = 10
        /\ pdf.pages[k].images = <<Image(975, 975, TRUE)>>
        /\ SentToOcr(k)

\* C10: a citation's confidence is in 0.95-0.99 when the keyword is in the
\* cited clause's heading, in 0.85-0.94 when it is only in the body, and is
\* never 0.
C10_CitationBands ==
    Returned =>
        \A j \in 1..Len(Dlr.citations) :
            LET cit == Dlr.citations[j]
                c == out[1].clauses[FirstMatch(cit.keyword, out[1].clauses)]
            IN  /\ cit.keyword \in c.hkws => cit.confidence \in 95..99
                /\ (cit.keyword \notin c.hkws /\ InBody(cit.keyword, c.body))
                      => cit.confidence \in 85..94
                /\ cit.confidence # 0

KwIdx(kw) == CHOOSE j \in 1..Len(keywords) : keywords[j] = kw

\* C11: generate_citations emits at most one citation per keyword, in the
\* fixed keyword order; a keyword is cited exactly when some clause's heading
\* or first 500 body characters contains it, and the citation names the first
\* such clause in clause order.
C11_CitesFirstClause ==
    Returned =>
        LET cits == Dlr.citations
            cl == out[1].clauses
        IN  /\ \A a, b \in 1..Len(cits) :
                  a < b => KwIdx(cits[a].keyword) < KwIdx(cits[b].keyword)
            /\ \A j \in 1..Len(keywords) :
                  (\E k \in 1..Len(cl) : Matches(keywords[j], cl[k]))
                      <=> (\E a \in 1..Len(cits) : cits[a].keyword = keywords[j])
            /\ \A a \in 1..Len(cits) :
                  \E k \in 1..Len(cl) :
                      /\ Matches(cits[a].keyword, cl[k])
                      /\ \A m \in 1..(k - 1) : ~Matches(cits[a].keyword, cl[m])
                      /\ cits[a].clause = cl[k].heading
                      /\ cits[a].page_start = cl[k].page_start
                      /\ cits[a].page_end = cl[k].page_end

\* two clauses hold the same keyword, one keyword stands only beyond the
\* 500-character window, and two keywords are cited
C11_Witness ==
    /\ Returned
    /\ \E kw \in {keywords[j] : j \in 1..Len(keywords)} :
          \E k, m \in 1..Len(out[1].clauses) :
              /\ k < m
              /\ Matches(kw, out[1].clauses[k]) /\ Matches(kw, out[1].clauses[m])
              /\ out[1].clauses[k].heading # out[1].clauses[m].heading
    /\ \E k \in 1..Len(out[1].clauses) :
          /\ InBody("Assignment", out[1].clauses[k].body)
          /\ \A a \in 1..Len(Dlr.citations) : Dlr.citations[a].keyword # "Assignment"
    /\ Len(Dlr.citations) >= 2

\* extract_metadata has returned its dict in the running or last call
HasMeta == "governing_law" \in DOMAIN meta

PatMatches(pat) == HasPat(FullFeats(ex), pat)
FirstToMatch(pats, j) == PatMatches(pats[j]) /\ \A i \in 1..(j - 1) : ~PatMatches(pats[i])

\* C12: without an AI client, margin_bps is the integer captured by the first
\* margin pattern that matches the full text, and is the default 175 only
\* when no margin pattern matches.
C12_MarginFirstPattern ==
    (HasMeta /\ ~env.client) =>
        /\ \A j \in 1..Len(margin_patterns) :
              FirstToMatch(margin_patterns, j) =>
                  meta.margin_bps = IntOf(Search(ex, margin_patterns[j]))
        /\ (\A j \in 1..Len(margin_patterns) : ~PatMatches(margin_patterns[j])) =>
              meta.margin_bps = 175

GbpSignal ==
    HasPat(HeadFeats(ex), "pound sign") \/ HasPat(FullFeats(ex), "sterling")
        \/ HasPat(HeadFeats(ex), "GBP")
EurSignal == HasPat(HeadFeats(ex), "euro sign") \/ HasPat(HeadFeats(ex), "EUR")
UsdSignal ==
    HasPat(HeadFeats(ex), "dollar sign") \/ HasPat(HeadFeats(ex), "USD")
        \/ HasPat(FullFeats(ex), "dollar") \/ HasPat(HeadFeats(ex), "U.S.")

\* C14: a detected currency signal decides the currency, GBP before EUR
\* before USD, whatever currency the AI gave; the AI's value can be the
\* result only when no signal is detected; with no signal and no AI client
\* the currency is "USD".
C14_CurrencySignalFirst ==
    HasMeta =>
        /\ GbpSignal => meta.currency = "GBP"
        /\ (~GbpSignal /\ EurSignal) => meta.currency = "EUR"
        /\ (~GbpSignal /\ ~EurSignal /\ UsdSignal) => meta.currency = "USD"
        /\ (~GbpSignal /\ ~EurSignal /\ ~UsdSignal) =>
              meta.currency \in {"USD", run.obj.currency}
        /\ (~GbpSignal /\ ~EurSignal /\ ~UsdSignal /\ ~env.client) =>
              meta.currency = "USD"

\* a sterling signal on page 2 after a dollar signal on page 1, and an AI
\* answer naming a third currency
C14_Witness ==
    /\ HasMeta
    /\ Len(ex.full_text) = 2
    /\ HasPat(ex.full_text[1].feats, "dollar")
    /\ HasPat(ex.full_text[2].feats, "sterling")
    /\ run.obj.currency = "EUR"
    /\ meta.currency = "GBP"

\* extract_clauses has run in the running or last call
ClausesDone == pc \in {"metadata", "assemble", "raised", "update"} \/ (pc = "idle" /\ run.n >= 1)

DocLines == AllLines(ex.pages)
HeadingIdx == {k \in 1..Len(DocLines) : DocLines[k].line.kind = "heading"}
TheHeading == CHOOSE k \in HeadingIdx : TRUE
LinesBefore(h) == [k \in 1..(h - 1) |-> DocLines[k].line]
LinesAfter(h) == [k \in 1..(Len(DocLines) - h) |-> DocLines[h + k].line]

\* the document's only heading line is "Clause 1.1 Definitions"
SingleHeading ==
    /\ ClausesDone
    /\ Cardinality(HeadingIdx) = 1
    /\ DocLines[TheHeading].line.tag = "Clause 1.1 Definitions"

OneClauseOnItsPage ==
    /\ Len(ex.clauses) = 1
    /\ ex.clauses[1].heading = "Clause 1.1 Definitions"
    /\ ex.clauses[1].page_start = DocLines[TheHeading].page
    /\ ex.clauses[1].page_end = DocLines[TheHeading].page

\* C15 as stated: a document with the single heading line "Clause 1.1
\* Definitions" followed by at least 80 characters of body text yields exactly
\* one clause, with that heading and page_start = page_end = the heading's page.
C15_SingleClauseAtLeast80 ==
    (SingleHeading /\ StripLen(LinesAfter(TheHeading)) >= 80) => OneClauseOnItsPage

\* C15 amended: a document with the single heading line "Clause 1.1
\* Definitions", preceded by at most 80 characters of text and followed by
\* more than 80 characters of body text of which no line stands on a later
\* page, yields exactly one clause, with that heading and page_start =
\* page_end = the heading's page.
C15_SingleClauseOnLastPage ==
    (/\ SingleHeading
     /\ StripLen(LinesAfter(TheHeading)) > ClauseMinBody
     /\ StripLen(LinesBefore(TheHeading)) <= ClauseMinBody
     /\ \A k \in 1..Len(DocLines) :
           k > TheHeading => DocLines[k].page = DocLines[TheHeading].page)
        => OneClauseOnItsPage

\* the heading on page 2 after a first page of 60 characters
C15_Witness ==
    /\ SingleHeading
    /\ Len(ex.pages) = 2
    /\ DocLines[TheHeading].page = 2
    /\ StripLen(LinesBefore(TheHeading)) > CloseMinBody
    /\ StripLen(LinesAfter(TheHeading)) > ClauseMinBody
    /\ OneClauseOnItsPage

FacilityKeys == {"name", "type", "amount", "currency"}

\* C16: every entry of dlr.facilities has the keys name, type, amount and
\* currency, whether it comes from a facility_schedule table, from the
\* "Facility A/B/RCF" patterns or from the total commitment.
C16_FacilityKeys ==
    Returned =>
        \A k \in 1..Len(Dlr.facilities) : FacilityKeys \subseteq DOMAIN Dlr.facilities[k]

\* C17: no two entries of dlr.parties have the same name.
C17_PartyNamesDistinct ==
    Returned =>
        \A a, b \in 1..Len(Dlr.parties) :
            a # b => Dlr.parties[a].name # Dlr.parties[b].name

\* two institutions are matched and the AI names one of them as the borrower
C17_Witness ==
    /\ Returned
    /\ Len(Dlr.parties) >= 2
    /\ run.obj.borrower_name = "Citibank, N.A."
    /\ Dlr.borrower_name = "Citibank, N.A."
    /\ \E a \in 1..Len(Dlr.parties) : Dlr.parties[a].name = "Citibank, N.A."

\* the keys of the DLR output schema that the model's build_dlr fills
OutputSchemaFields ==
    {"borrower_name", "governing_law", "currency", "facility_type", "margin_bps",
     "is_esg_linked", "esg_score", "transferability_mode", "parties", "facilities",
     "transferability", "obligations", "citations", "tables", "extraction_summary",
     "extraction_confidence", "ai_enhanced"}

\* C18: the DLR get_dlr returns has every field of the output schema, with
\* the value stored by process_document.
C18_GetDlrRoundTrip ==
    (resp # <<>> /\ resp[1].op = "get_dlr" /\ resp[1].loan_id = "loan"
       /\ resp[1].status = 200) =>
        \A f \in OutputSchemaFields :
            /\ f \in DOMAIN resp[1].body
            /\ resp[1].body[f] = loan.dlr_json[1][f]

NoCommitment ==
    \/ loan.dlr_json = <<>>
    \/ loan.dlr_json[1].facilities = <<>>
    \/ SumAmounts(loan.dlr_json[1].facilities) = 0

\* C19: every consumer computing the total commitment answers 350,000,000,
\* never 0, when the loan has no DLR, no facility, or amounts summing to 0.
C19_SyntheticCommitment ==
    (resp # <<>> /\ resp[1].op \in {"agent", "video_gen", "get_loan_stats"}
       /\ NoCommitment) =>
        resp[1].body.total_commitment = 350000000

HasMarker(text) ==
    text.lines # <<>> /\ text.lines[1].tag = "[AI-Generated Content for Page"
MarkerAnywhere(text) ==
    \E k \in 1..Len(text.lines) : text.lines[k].tag = "[AI-Generated Content for Page"

ReaderCalls == (IF prev = <<>> THEN <<>> ELSE prev[1].ocrLog) \o ocrLog

\* C21: in sequential use at most one EasyOCR reader is constructed in the
\* process; once a _get_easyocr_reader call has returned a reader, every later
\* call, of the same or of another OCREngine, returns that reader.
C21_ReaderBuiltOnce ==
    /\ readers <= 1
    /\ \A j, k \in 1..Len(ReaderCalls) :
          (j < k /\ ReaderCalls[j].reader # 0) =>
              ReaderCalls[k].reader = ReaderCalls[j].reader
    /\ \A j \in 1..Len(ReaderCalls) : ReaderCalls[j].reader \in {0, _easyocr_reader}

\* the reader built by one build_dlr is returned to the OCREngine of the next
C21_Witness ==
    /\ prev # <<>>
    /\ \E j \in 1..Len(prev[1].ocrLog) : prev[1].ocrLog[j].reader # 0
    /\ \E k \in 1..Len(ocrLog) : ocrLog[k].reader = _easyocr_reader
    /\ readers = 1

\* load_document has handed a path to fitz.open in the running or last call
PathResolved == ex.target # 0

\* C22: the path handed to fitz.open is the first that exists of: the given
\* path, /app/data/uploads/<f>, data/uploads/<f>, data/<f>, /app/data/<f>,
\* <f> (candidates 1 to 6); a later candidate is used only when no earlier one
\* exists; when none exists it is the given path.
C22_FirstExistingCandidate ==
    PathResolved =>
        IF pdf.exists = {} THEN ex.target = 1
        ELSE /\ ex.target \in pdf.exists
             /\ \A c \in 1..(ex.target - 1) : c \notin pdf.exists

\* the file stands in data/ and in /app/data/ only, and data/<f> is opened
C22_Witness ==
    /\ PathResolved
    /\ pdf.exists = {4, 5}
    /\ ex.target = 4
    /\ Len(ex.pages) = 1

\* the text of page k after the scanned-page decision: what
\* process_page_image returned for a scanned page, the native text otherwise
TextAfterDecision(k) ==
    IF SentToOcr(k)
    THEN ocrLog[CHOOSE j \in 1..Len(ocrLog) : ocrLog[j].page = k].text
    ELSE pdf.pages[k].text

\* C23: every page whose text is empty or whitespace-only after the
\* scanned-page decision gets the "[OCR REQUIRED: Page N ...]" placeholder as
\* its text and has its number in ocr_pages.
C23_StillEmptyCaught ==
    \A k \in 1..Len(ex.pages) :
        StripLen(TextAfterDecision(k).lines) = 0 =>
            /\ ex.pages[k].text = StillEmptyText(k)
            /\ InSeq(k, ex.ocr_pages)

\* the DLR stored for the loan a get_dlr response is about
StoredDlr(loan_id) == session_get(loan_id)[1].dlr_json

\* C24: get_dlr answers 404 for a loan id that has no row, 409 for a loan
\* whose DLR was never stored, and 200 with the stored DLR's fields for a
\* loan that has one: the sample loan, and any loan after a successful
\* process_document.
C24_GetDlrByLoanState ==
    (resp # <<>> /\ resp[1].op = "get_dlr") =>
        LET id == resp[1].loan_id IN
        IF session_get(id) = <<>> THEN resp[1].status = 404
        ELSE IF StoredDlr(id) = <<>> THEN resp[1].status = 409
        ELSE /\ resp[1].status = 200
             /\ \A f \in DLRFields \cap DOMAIN StoredDlr(id)[1] :
                   resp[1].body[f] = StoredDlr(id)[1][f]

\* C25: when two extractions call _get_easyocr_reader at the same time while
\* the global reader is None, one reader is constructed and both calls return
\* that reader.
C25_ConcurrentInitOnce ==
    /\ readers <= 1
    /\ \A v, w \in DOMAIN workers :
          (/\ workers[v].rets # <<>> /\ workers[v].rets[1] # 0
           /\ workers[w].rets # <<>> /\ workers[w].rets[1] # 0)
              => workers[v].rets[1] = workers[w].rets[1]

\* load_document has returned in the running or last call
LoadReturned == pc = "clauses" \/ ClausesDone

\* the page texts in page order, each followed by "\n"
PagesText == [k \in 1..Len(ex.pages) |-> ex.pages[k].text]

\* C26: whenever load_document returns for a file it could open, also after
\* an error raised on a page or in the table extraction, full_text is the
\* concatenation of the texts of pages in page order, each followed by a
\* newline.
C26_FullTextMatchesPages ==
    (LoadReturned /\ CanOpen(pdf)) => ex.full_text = PagesText

\* C27: ocr_pages is a strictly increasing list of page numbers of the
\* document; no number stands in it twice.
C27_OcrPagesIncreasing ==
    /\ \A j \in 1..Len(ex.ocr_pages) : ex.ocr_pages[j] \in 1..Len(pdf.pages)
    /\ \A j, k \in 1..Len(ex.ocr_pages) : j < k => ex.ocr_pages[j] < ex.ocr_pages[k]

\* a process_document call has set the document "processing" and has ended
CallEnded == pc = "idle" /\ run.n >= 1

\* C28: a process_document call that has set the document "processing" ends
\* with the committed status "ready" or "failed", whether build_dlr raised or
\* the update after it failed.
C28_NeverLeftProcessing ==
    CallEnded => doc.status \in {"ready", "failed"}

CanonicalFields ==
    {"agreement_date", "governing_law", "borrower_name", "facility_type", "currency",
     "margin_bps", "is_esg_linked", "esg_score", "transferability_mode"}

\* the step in which process_document commits the loan and the "ready" document
SuccessfulUpdate == pc = "update" /\ pc' = "idle" /\ doc'.status = "ready"

\* C29: a successful process_document leaves each canonical field of the loan
\* equal to the same-named top-level field of the DLR it stores in dlr_json,
\* and the loan's version one higher than before.
C29_CanonicalFieldsMirrorDlr ==
    [][SuccessfulUpdate =>
          /\ \A f \in CanonicalFields : loan'[f] = loan'.dlr_json[1][f]
          /\ loan'.version = loan.version + 1]_vars

Borrowers(parties) == {k \in 1..Len(parties) : parties[k].role = "Borrower"}

\* C30: dlr.parties is never empty and has exactly one entry with role
\* "Borrower", whose name is dlr.borrower_name, whatever institutions are
\* matched and whatever the resolved borrower name is.
C30_OneBorrowerParty ==
    Returned =>
        /\ Dlr.parties # <<>>
        /\ Cardinality(Borrowers(Dlr.parties)) = 1
        /\ \A k \in Borrowers(Dlr.parties) : Dlr.parties[k].name = Dlr.borrower_name

====
